---- MODULE Spec2Model ----
(***************************************************************************)
(* Fingerprint enrollment / verification service.                          *)
(*                                                                         *)
(*   src/database.py                the fingerprints table and its writers *)
(*   src/fingerprint_processing.py  register_fingerprint, verify_fingerprint*)
(*   src/server.py                  the Flask routes                       *)
(*                                                                         *)
(* Images are abstracted to what the code observes of them: whether        *)
(* cv2.imread returns an array, what is_image_blurry and                   *)
(* is_fingerprint_present answer, and how many ORB descriptors and         *)
(* minutiae the extraction yields.  BFMatcher (crossCheck) and the cKDTree *)
(* query are library calls: the model lets them return any count they can  *)
(* return (at most min(|probe|,|stored|) mutual matches, at most |probe|   *)
(* minutiae within the radius).  Scores are Python floats in the code; the *)
(* model keeps them as exact fractions <<numerator, denominator>> in       *)
(* lowest terms.                                                           *)
(*                                                                         *)
(* Spec and SpecVerify handle requests one at a time: verify_fingerprint    *)
(* reads the table once (line 271) and writes nothing.  SpecEnroll runs     *)
(* enroll calls concurrently, one step per statement that touches the       *)
(* table.  SpecBackup schedules the threads save_fingerprint starts; the     *)
(* write of the CSV file by one thread is taken as one step.                *)
(***************************************************************************)
EXTENDS Integers, Sequences, FiniteSets, TLC

\* ---------------------------------------------------------------- bounds
\* Feature counts of the enrollment images, and of the probe images of Spec.
MaxDesc == 1
MaxMin == 1
\* Feature counts of the probe images of SpecVerify.
MaxDescV == 5
MaxMinV == 15
\* Enroll calls in progress at the same time (SpecEnroll).
MaxCalls == 3
\* Table reads by backup threads.
MaxReads == 3

UserIds == {"u1", "u2"}
\* The <<username, phone>> pairs clients send.
Identities == {<<"alice", "111">>, <<"bob", "222">>}

\* Python's None, and the empty string a form field or JSON body may carry.
None == "None"
Empty == ""

\* ------------------------------------------------------- program constants
MATCH_THRESHOLD == 26
FallbackOrb == 45
FallbackMinutiae == 15
OrbWeight == 1
MinutiaeWeight == 9
WeightScale == 10
Percent == 100
angles == <<-10, -5, 0, 5, 10>>

\* ------------------------------------------------------------- fractions
Max(a, b) == IF a >= b THEN a ELSE b

Min(a, b) == IF a <= b THEN a ELSE b

RECURSIVE GCD(_, _)
GCD(a, b) == IF b = 0 THEN a ELSE GCD(b, a % b)

Norm(r) ==
    LET g == GCD(r[1], r[2])
    IN  IF r[1] = 0 THEN <<0, 1>> ELSE <<r[1] \div g, r[2] \div g>>

Zero == <<0, 1>>
Whole(n) == <<n, 1>>

RatLT(a, b) == a[1] * b[2] < b[1] * a[2]
RatLE(a, b) == a[1] * b[2] <= b[1] * a[2]

\* (count / max(len(probe), len(stored))) * 100
Ratio100(count, n1, n2) == Norm(<<Percent * count, Max(n1, n2)>>)

\* final_score = (accuracy_orb * 0.1) + (accuracy_minutiae * 0.9)
Fuse(o, m) ==
    Norm(<<OrbWeight * o[1] * m[2] + MinutiaeWeight * m[1] * o[2],
           WeightScale * o[2] * m[2]>>)

\* ----------------------------------------------------------------- images
\* What the quality gate observes of an uploaded file.
Quality ==
    { [readable |-> FALSE, blurry |-> FALSE, ridges |-> FALSE] } \cup
    [readable : {TRUE}, blurry : BOOLEAN, ridges : BOOLEAN]

\* An enrollment image: its quality and the features extraction yields.  The
\* features of an image that fails the gate are never extracted.
Images(D, M) ==
    { [q |-> q, desc |-> 0, min |-> 0] :
        q \in { g \in Quality : ~(g.readable /\ ~g.blurry /\ g.ridges) } } \cup
    [q : { g \in Quality : g.readable /\ ~g.blurry /\ g.ridges },
     desc : 0..D, min : 0..M]

\* ------------------------------------------------------------------ state
VARIABLES
    store,      \* table fingerprints: user_id -> row, or NoRow
    op,         \* the last register/update/delete/query request and its reply
    v           \* the verify request in progress or last completed: the locals
                \* of verify_fingerprint, the route's reply, and history fields
                \*   lookups  calls of get_fingerprint_by_id made by this request
                \*   enhanced calls of enhance_fingerprint made by this request
                \*   stages   the stages this request went through, in order
                \*   ties     the distinct <<final, orb, minutiae>> scores of
                \*            the scored angles that attain the greatest final
                \*            score so far, in order of first appearance

VARIABLES
    calls,      \* the concurrent POST /register calls: call -> its request, its
                \* position in register_fingerprint, what its lookup found
                \* and its reply
    backup      \* the backup threads and the CSV file:
                \*   tasks  the live threads: position and rows fetched; threads
                \*          in the same position with the same rows are one
                \*          element and move together
                \*   file   whether fingerprint_backup.csv was written, its rows
                \*   reads  SELECTs made by backup threads so far; at: the
                \*          number of the SELECT a set of rows came from

vars == <<store, op, v, calls, backup>>

NoRow == [username |-> None, phone |-> None,
          descriptors |-> [orb |-> 0, minutiae |-> 0,
                           username |-> None, phone |-> None]]

BadFile == [readable |-> FALSE, blurry |-> FALSE, ridges |-> FALSE]

NoOp == [kind |-> "none", uid |-> None, username |-> None, phone |-> None,
         q |-> BadFile, desc |-> 0, min |-> 0,
         message |-> None, code |-> 0, body |-> {}]

Calls == 1..MaxCalls

NoCall == [pc |-> "idle", kind |-> "register", uid |-> None, username |-> None,
           phone |-> None, q |-> BadFile, desc |-> 0, min |-> 0,
           found |-> FALSE, message |-> None, code |-> 0]

\* fingerprint_backup.csv before its first backup: no file, no rows.
NoFile == [written |-> FALSE, rows |-> {}]

\* A backup thread that has not read the table yet.
Started == [pc |-> "started", rows |-> {}, at |-> 0]

NoBackup == [tasks |-> {}, file |-> NoFile, at |-> 0, reads |-> 0]


\* ------------------------------------------------------------- database.py
\* SELECT descriptors ... ; json.loads: the stored JSON document, or None.
NoTemplate == NoRow.descriptors

get_fingerprint_by_id(st, u) == st[u].descriptors

save_fingerprint_no_unique(st, u, data) ==
    [message |-> "Fingerprint registered successfully.",
     store |-> [st EXCEPT ![u] = [username |-> data.username,
                                  phone |-> data.phone,
                                  descriptors |-> data]],
     thread |-> TRUE]

\* INSERT under the UNIQUE(user_id) constraint; IntegrityError is caught.
\* thread: whether the call starts a backup_to_csv thread (line 45).
save_fingerprint(st, u, data) ==
    IF st[u] # NoRow
    THEN [message |-> "User ID already registered.", store |-> st,
          thread |-> FALSE]
    ELSE [message |-> "Fingerprint registered successfully.",
          store |-> [st EXCEPT ![u] = [username |-> data.username,
                                       phone |-> data.phone,
                                       descriptors |-> data]],
          thread |-> TRUE]

\* DELETE FROM fingerprints WHERE user_id = ? ; "backup_to_csv() removed here"
delete_fingerprint(st, u) ==
    [message |-> "User deleted successfully.",
     store |-> [st EXCEPT ![u] = NoRow],
     thread |-> FALSE]

UpdatedRowAndDocument(row, username, phone) ==
    [row EXCEPT !.username = username, !.phone = phone,
                !.descriptors.username = username, !.descriptors.phone = phone]

\* UPDATE fingerprints SET username = ?, phone = ? (one matching row)
UpdatedRow(row, username, phone) ==
    [row EXCEPT !.username = username, !.phone = phone]

\* ... WHERE user_id = ? : no row matches an unknown user_id
UpdateWhere(st, u, username, phone) ==
    IF st[u] = NoRow THEN st
    ELSE [st EXCEPT ![u] = UpdatedRow(st[u], username, phone)]

\* "backup_to_csv() removed here"
update_fingerprint(st, u, username, phone) ==
    [message |-> "User updated successfully.",
     store |-> UpdateWhere(st, u, username, phone),
     thread |-> FALSE]

\* threading.Thread(target=backup_to_csv, daemon=True).start()
StartThread(b) == [b EXCEPT !.tasks = @ \cup {Started}]

\* What a write leaves of the backup state: a thread more when it starts one.
AfterWrite(b, thread) == IF thread THEN StartThread(b) ELSE b

\* SELECT user_id, username, phone, descriptors FROM fingerprints ; fetchall
AllRows(st) ==
    { [user_id |-> u, username |-> st[u].username, phone |-> st[u].phone,
       descriptors |-> st[u].descriptors] : u \in { w \in UserIds : st[w] # NoRow } }

\* backup_to_csv lines 99-103: the thread reads the table.
BackupRead ==
    /\ Started \in backup.tasks
    /\ backup.reads < MaxReads
    /\ backup' = [backup EXCEPT !.reads = @ + 1,
                                !.tasks = (@ \ {Started}) \cup
                                          {[pc |-> "fetched",
                                            rows |-> AllRows(store),
                                            at |-> backup.reads + 1]}]
    /\ UNCHANGED <<store, op, v, calls>>

\* backup_to_csv lines 105-109: open(CSV_BACKUP_FILE, "w") and write the rows
\* fetched; the thread ends.
BackupWrite(t) ==
    /\ t \in backup.tasks
    /\ t.pc = "fetched"
    /\ backup' = [backup EXCEPT !.file = [written |-> TRUE, rows |-> t.rows],
                                !.at = t.at,
                                !.tasks = @ \ {t}]
    /\ UNCHANGED <<store, op, v, calls>>

\* ------------------------------------------------ register_fingerprint
NoDescriptorsIgnored(desc) == FALSE

\* descriptors is None or len(descriptors) == 0
NoDescriptors(desc) == desc = 0

GateOutcomeRidgesFirst(q) ==
    IF ~q.readable THEN "error"
    ELSE IF ~q.ridges THEN "no_fingerprint"
    ELSE IF q.blurry THEN "blurry"
    ELSE "ok"

\* The quality gate shared by register and verify, in the order of the code:
\* imread is None, then is_image_blurry, then not is_fingerprint_present.
GateOutcome(q) ==
    IF ~q.readable THEN "error"
    ELSE IF q.blurry THEN "blurry"
    ELSE IF ~q.ridges THEN "no_fingerprint"
    ELSE "ok"

RegisterGateMessage(g) ==
    CASE g = "error" -> "Image could not be read."
      [] g = "blurry" -> "Image too blurry. Please capture a clearer fingerprint."
      [] g = "no_fingerprint" -> "No fingerprint detected! Please place your finger properly."

register_fingerprint_overwrite(st, u, username, phone, img) ==
    LET g == GateOutcome(img.q)
        data == [orb |-> img.desc, minutiae |-> img.min,
                 username |-> username, phone |-> phone]
    IN  IF g # "ok"
        THEN [message |-> RegisterGateMessage(g), store |-> st, thread |-> FALSE]
        ELSE IF NoDescriptors(img.desc)
        THEN [message |-> "Fingerprint not detected.", store |-> st,
              thread |-> FALSE]
        ELSE [message |-> save_fingerprint(st, u, data).message,
              store |-> [st EXCEPT ![u] = [username |-> username, phone |-> phone,
                                           descriptors |-> data]],
              thread |-> save_fingerprint(st, u, data).thread]

register_fingerprint(st, u, username, phone, img) ==
    LET g == GateOutcome(img.q)
        data == [orb |-> img.desc, minutiae |-> img.min,
                 username |-> username, phone |-> phone]
    IN  IF g # "ok"
        THEN [message |-> RegisterGateMessage(g), store |-> st, thread |-> FALSE]
        ELSE IF NoDescriptors(img.desc)
        THEN [message |-> "Fingerprint not detected.", store |-> st,
              thread |-> FALSE]
        ELSE IF get_fingerprint_by_id(st, u) # NoTemplate
        THEN [message |-> "User ID already registered.", store |-> st,
              thread |-> FALSE]
        ELSE save_fingerprint(st, u, data)

\* ------------------------------------------------------------- server.py
\* A request is accepted when no verify request is being processed.
Idle == v.pc \in {"idle", "responded"}

VIdle ==
    [pc |-> "idle", uid |-> None,
     q |-> BadFile,
     stored |-> NoTemplate, username |-> None, i |-> 0,
     best_final_score |-> Zero, best_orb_score |-> Zero,
     best_minutiae_score |-> Zero,
     result |-> [status |-> None, match |-> FALSE, accuracy |-> Zero,
                 orb_score |-> Zero, minutiae_score |-> Zero,
                 username |-> None, message |-> None],
     resp |-> [match |-> FALSE, status |-> None, username |-> None, code |-> 0],
     lookups |-> 0, enhanced |-> 0, stages |-> <<>>, ties |-> <<>>]

\* "success" in result.lower()
HasSuccess(message) == message = "Fingerprint registered successfully."

\* POST /register ; a request with a missing field is answered before its
\* file is saved or read (lines 27-28).
Register(u, username, phone, img) ==
    LET req == [NoOp EXCEPT !.kind = "register", !.uid = u,
                            !.username = username, !.phone = phone,
                            !.q = img.q, !.desc = img.desc, !.min = img.min]
    IN  /\ Idle
        /\ IF username = Empty \/ phone = Empty
           THEN /\ op' = [NoOp EXCEPT !.kind = "register", !.uid = u,
                                      !.username = username, !.phone = phone,
                                      !.message = "Missing required fields",
                                      !.code = 400]
                /\ UNCHANGED <<store, backup>>
           ELSE LET r == register_fingerprint(store, u, username, phone, img)
                IN  /\ store' = r.store
                    /\ backup' = AfterWrite(backup, r.thread)
                    /\ op' = [req EXCEPT !.message = r.message,
                                         !.code = IF HasSuccess(r.message)
                                                  THEN 200 ELSE 400]
        /\ v' = VIdle
        /\ UNCHANGED calls

\* PUT /update/<user_id>
update_user(u, username, phone) ==
    /\ Idle
    /\ IF username = Empty \/ phone = Empty
       THEN /\ op' = [NoOp EXCEPT !.kind = "update", !.uid = u,
                                  !.username = username, !.phone = phone,
                                  !.message = "Username and phone are required.",
                                  !.code = 400]
            /\ UNCHANGED store
       ELSE /\ store' = UpdateWhere(store, u, username, phone)
            /\ op' = [NoOp EXCEPT !.kind = "update", !.uid = u,
                                  !.username = username, !.phone = phone,
                                  !.message = "User updated successfully.",
                                  !.code = 200]
    /\ v' = VIdle
    /\ UNCHANGED <<calls, backup>>

\* database.update_fingerprint called directly
UpdateFingerprint(u, username, phone) ==
    /\ Idle
    /\ store' = update_fingerprint(store, u, username, phone).store
    /\ op' = [NoOp EXCEPT !.kind = "update", !.uid = u,
                          !.username = username, !.phone = phone,
                          !.message = update_fingerprint(store, u, username, phone).message,
                          !.code = 200]
    /\ backup' = AfterWrite(backup, update_fingerprint(store, u, username, phone).thread)
    /\ v' = VIdle
    /\ UNCHANGED calls

\* DELETE /delete/<user_id>
delete_user(u) ==
    /\ Idle
    /\ store' = delete_fingerprint(store, u).store
    /\ op' = [NoOp EXCEPT !.kind = "delete", !.uid = u,
                          !.message = delete_fingerprint(store, u).message,
                          !.code = 200]
    /\ backup' = AfterWrite(backup, delete_fingerprint(store, u).thread)
    /\ v' = VIdle
    /\ UNCHANGED calls

\* GET /user/<user_id> : SELECT user_id, username, phone
get_user(u) ==
    /\ Idle
    /\ op' = IF store[u] # NoRow
             THEN [NoOp EXCEPT !.kind = "get_user", !.uid = u, !.code = 200,
                               !.body = {[user_id |-> u,
                                          username |-> store[u].username,
                                          phone |-> store[u].phone]}]
             ELSE [NoOp EXCEPT !.kind = "get_user", !.uid = u, !.code = 404,
                               !.message = "User not found."]
    /\ v' = VIdle
    /\ UNCHANGED <<store, calls, backup>>

\* GET /users : SELECT user_id, username (no ORDER BY: an unordered listing)
get_users ==
    /\ Idle
    /\ op' = [NoOp EXCEPT !.kind = "get_users", !.code = 200,
                          !.body = {[user_id |-> u, username |-> store[u].username,
                                     phone |-> None] : u \in {w \in UserIds : store[w] # NoRow}}]
    /\ v' = VIdle
    /\ UNCHANGED <<store, calls, backup>>

\* ------------------------------------------- concurrent POST /register calls
\* server.py 22-31 and register_fingerprint 174-211: the form check, the
\* quality gate and the extraction of one call; none of them touches the table.
\* Calls are numbered in the order of their arrival.
EnrollStart(c, u, username, phone, img) ==
    LET req == [NoCall EXCEPT !.uid = u, !.username = username, !.phone = phone,
                              !.q = img.q, !.desc = img.desc, !.min = img.min]
        g == GateOutcome(img.q)
    IN  /\ calls[c].pc = "idle"
        /\ \A b \in Calls : b < c => calls[b].pc # "idle"
        /\ calls' = [calls EXCEPT ![c] =
              IF username = Empty \/ phone = Empty
              THEN [req EXCEPT !.pc = "returned", !.code = 400,
                               !.message = "Missing required fields"]
              ELSE IF g # "ok"
              THEN [req EXCEPT !.pc = "returned", !.code = 400,
                               !.message = RegisterGateMessage(g)]
              ELSE IF NoDescriptors(img.desc)
              THEN [req EXCEPT !.pc = "returned", !.code = 400,
                               !.message = "Fingerprint not detected."]
              ELSE [req EXCEPT !.pc = "extracted"]]
        /\ UNCHANGED <<store, op, v, backup>>

\* register_fingerprint 213-221: the lookup, and the template of the call.
EnrollLookup(c) ==
    /\ calls[c].pc = "extracted"
    /\ calls' = [calls EXCEPT ![c] =
          IF get_fingerprint_by_id(store, calls[c].uid) # NoTemplate
          THEN [@ EXCEPT !.pc = "returned", !.found = TRUE, !.code = 400,
                         !.message = "User ID already registered."]
          ELSE [@ EXCEPT !.pc = "built"]]
    /\ UNCHANGED <<store, op, v, backup>>

\* register_fingerprint 223-225 and server.py 34: save_fingerprint (one INSERT,
\* atomic on its row) and the reply.
EnrollSave(c) ==
    LET call == calls[c]
        data == [orb |-> call.desc, minutiae |-> call.min,
                 username |-> call.username, phone |-> call.phone]
        r == save_fingerprint(store, call.uid, data)
    IN  /\ call.pc = "built"
        /\ store' = r.store
        /\ backup' = AfterWrite(backup, r.thread)
        /\ calls' = [calls EXCEPT ![c] =
              [@ EXCEPT !.pc = "returned", !.message = r.message,
                        !.code = IF HasSuccess(r.message) THEN 200 ELSE 400]]
        /\ UNCHANGED <<op, v>>

\* ------------------------------------------------------ verify_fingerprint
EarlyResultKeepsName(status, message) ==
    [status |-> status, match |-> FALSE, accuracy |-> Zero, orb_score |-> Zero,
     minutiae_score |-> Zero, username |-> v.uid, message |-> message]

\* The dict returned by the four early returns (lines 237-282).
EarlyResult(status, message) ==
    [status |-> status, match |-> FALSE, accuracy |-> Zero, orb_score |-> Zero,
     minutiae_score |-> Zero, username |-> None, message |-> message]

VerifyGateMessage(g) ==
    CASE g = "error" -> "Invalid image file."
      [] g = "blurry" -> "Fingerprint image is too blurry."
      [] g = "no_fingerprint" -> "No fingerprint detected. Please try again."

BetterOrEqual(final_score, best_final_score) == RatLE(best_final_score, final_score)

\* final_score > best_final_score
Better(final_score, best_final_score) == RatLT(best_final_score, final_score)

IsMatchStrict(best_final_score, best_orb_score, best_minutiae_score) ==
    \/ RatLT(Whole(MATCH_THRESHOLD), best_final_score)
    \/ /\ RatLT(Whole(FallbackOrb), best_orb_score)
       /\ RatLT(Whole(FallbackMinutiae), best_minutiae_score)

\* best_final_score >= MATCH_THRESHOLD or
\* (best_orb_score > 45 and best_minutiae_score > 15)
IsMatch(best_final_score, best_orb_score, best_minutiae_score) ==
    \/ RatLE(Whole(MATCH_THRESHOLD), best_final_score)
    \/ /\ RatLT(Whole(FallbackOrb), best_orb_score)
       /\ RatLT(Whole(FallbackMinutiae), best_minutiae_score)

\* The dict returned after the loop (lines 338-346).
FinalResult(best_final_score, best_orb_score, best_minutiae_score, username) ==
    LET is_match == IsMatch(best_final_score, best_orb_score, best_minutiae_score)
    IN  [status |-> IF is_match THEN "match_found" ELSE "no_match",
         match |-> is_match,
         accuracy |-> best_final_score,
         orb_score |-> best_orb_score,
         minutiae_score |-> best_minutiae_score,
         username |-> username,
         message |-> IF is_match THEN "Match found" ELSE "No match found"]

\* POST /verify arrives: the route saves the upload and calls verify_fingerprint,
\* or answers 400 when a field is missing.
VerifyStart(u, q) ==
    /\ Idle
    /\ op' = NoOp
    /\ v' = IF u = Empty
            THEN [VIdle EXCEPT !.pc = "responded", !.uid = u, !.q = q,
                               !.resp = [match |-> FALSE, status |-> None,
                                         username |-> None, code |-> 400]]
            ELSE [VIdle EXCEPT !.pc = "start", !.uid = u, !.q = q,
                               !.stages = <<"start">>]
    /\ UNCHANGED <<store, calls, backup>>

\* Lines 235-269: the three input checks, each an early return.
QualityGate ==
    /\ v.pc = "start"
    /\ LET g == GateOutcome(v.q)
       IN  v' = IF g # "ok"
                THEN [v EXCEPT !.pc = "decided",
                               !.result = EarlyResult(g, VerifyGateMessage(g)),
                               !.stages = Append(@, "decided")]
                ELSE [v EXCEPT !.pc = "quality_checked",
                               !.stages = Append(@, "quality_checked")]
    /\ UNCHANGED <<store, op, calls, backup>>

\* Lines 271-291: the lookup, its early return, and the loop's initial values.
LoadTemplate ==
    /\ v.pc = "quality_checked"
    /\ LET stored == get_fingerprint_by_id(store, v.uid)
       IN  v' = IF stored = NoTemplate
                THEN [v EXCEPT !.pc = "decided", !.lookups = @ + 1,
                               !.result = EarlyResult("no_user",
                                    "No fingerprint data found for this user ID."),
                               !.stages = Append(@, "decided")]
                ELSE [v EXCEPT !.pc = "template_loaded", !.lookups = @ + 1,
                               !.stored = stored,
                               !.username = stored.username,
                               !.best_final_score = Zero,
                               !.best_orb_score = Zero,
                               !.best_minutiae_score = Zero,
                               !.i = 1,
                               !.stages = Append(@, "template_loaded")]
    /\ UNCHANGED <<store, op, calls, backup>>

\* Lines 310-319: the two accuracies of one angle.  matches: len(bf.match(..));
\* near: the probe minutiae with a stored minutia within the radius.
OrbAccuracy(matches, pd, sd) == Ratio100(matches, pd, sd)

MinutiaeAccuracy(near, pm, sm) ==
    IF pm > 0 /\ sm > 0 THEN Ratio100(near, pm, sm) ELSE Zero

\* History: the score triples of the scored angles attaining the greatest
\* final score, in order of first appearance.
Seen(ties, h) ==
    IF ties = <<>> \/ RatLT(ties[1][1], h[1]) THEN <<h>>
    ELSE IF ties[1][1] = h[1] /\ h \notin {ties[n] : n \in DOMAIN ties}
    THEN Append(ties, h)
    ELSE ties

\* Lines 321-328: fuse the two accuracies and keep the best hypothesis.
ScoreAngle(w, accuracy_orb, accuracy_minutiae) ==
    LET final_score == Fuse(accuracy_orb, accuracy_minutiae)
        seen == [w EXCEPT !.ties = Seen(@, <<final_score, accuracy_orb,
                                               accuracy_minutiae>>)]
    IN  IF Better(final_score, w.best_final_score)
        THEN [seen EXCEPT !.best_final_score = final_score,
                          !.best_orb_score = accuracy_orb,
                          !.best_minutiae_score = accuracy_minutiae]
        ELSE seen

\* Lines 294-328: what one iteration can leave behind, over every extraction
\* (pd descriptors, pm minutiae of the rotated probe) and every match count.
\* An angle without descriptors is skipped (line 307).
AngleOutcomes(w, D, M) ==
    { w : pd \in { d \in 0..D : NoDescriptors(d) } } \cup
    { ScoreAngle(w, o, m) :
        o \in UNION { { OrbAccuracy(k, pd, w.stored.orb) : k \in 0..Min(pd, w.stored.orb) }
                      : pd \in { d \in 0..D : ~NoDescriptors(d) } },
        m \in UNION { { MinutiaeAccuracy(k, pm, w.stored.minutiae) : k \in 0..pm }
                      : pm \in 0..M } }

Hypothesis(D, M) ==
    /\ v.pc \in {"template_loaded", "hypothesis_loop"}
    /\ v.i <= Len(angles)
    /\ \E w \in AngleOutcomes(v, D, M) :
            v' = [w EXCEPT !.pc = "hypothesis_loop",
                           !.i = @ + 1,
                           !.enhanced = @ + 1,
                           !.stages = IF "hypothesis_loop" \in {@[n] : n \in DOMAIN @}
                                      THEN @ ELSE Append(@, "hypothesis_loop")]
    /\ UNCHANGED <<store, op, calls, backup>>

\* Lines 330-346: the decision after the last angle.
Decide ==
    /\ v.pc = "hypothesis_loop"
    /\ v.i > Len(angles)
    /\ v' = [v EXCEPT !.pc = "decided",
                      !.result = FinalResult(v.best_final_score, v.best_orb_score,
                                             v.best_minutiae_score, v.username),
                      !.stages = Append(@, "decided")]
    /\ UNCHANGED <<store, op, calls, backup>>

\* server.py lines 49-86: the route's reply to the client.
VerifyReply(result) ==
    IF result.status = "blurry"
    THEN [match |-> FALSE, status |-> "blurry", username |-> None, code |-> 400]
    ELSE IF result.status = "no_fingerprint"
    THEN [match |-> FALSE, status |-> "no_fingerprint", username |-> None, code |-> 422]
    ELSE IF ~result.match
    THEN [match |-> FALSE, status |-> "no_match", username |-> None, code |-> 404]
    ELSE [match |-> TRUE, status |-> "match_found", username |-> result.username,
          code |-> 200]

Respond ==
    /\ v.pc = "decided"
    /\ v' = [VIdle EXCEPT !.pc = "responded", !.uid = v.uid, !.q = v.q,
                          !.result = v.result, !.resp = VerifyReply(v.result)]
    /\ UNCHANGED <<store, op, calls, backup>>

\* ---------------------------------------------------------- specifications
Init ==
    /\ store = [u \in UserIds |-> NoRow]
    /\ op = NoOp
    /\ v = VIdle
    /\ calls = [c \in Calls |-> NoCall]
    /\ backup = NoBackup

\* What a client may send as <<username, phone>>: an identity, or a form with
\* one of the two fields empty.
Forms == Identities \cup {<<Empty, "111">>, <<"alice", Empty>>}

\* The whole service, images with at most MaxDesc descriptors and MaxMin minutiae.
Next ==
    \/ \E u \in UserIds, f \in Forms, img \in Images(MaxDesc, MaxMin) :
          Register(u, f[1], f[2], img)
    \/ \E u \in UserIds, f \in Forms : update_user(u, f[1], f[2])
    \/ \E u \in UserIds, f \in Identities : UpdateFingerprint(u, f[1], f[2])
    \/ \E u \in UserIds : delete_user(u)
    \/ \E u \in UserIds : get_user(u)
    \/ get_users
    \/ \E u \in UserIds \cup {Empty}, q \in Quality : VerifyStart(u, q)
    \/ QualityGate
    \/ LoadTemplate
    \/ Hypothesis(MaxDesc, MaxMin)
    \/ Decide
    \/ Respond

Spec == Init /\ [][Next]_vars

\* Enrollment of one identity, and verification with probe images of up to
\* MaxDescV descriptors and MaxMinV minutiae.
NextVerify ==
    \/ \E img \in Images(MaxDesc, MaxMin) : Register("u1", "alice", "111", img)
    \/ \E u \in UserIds, q \in Quality : VerifyStart(u, q)
    \/ QualityGate
    \/ LoadTemplate
    \/ Hypothesis(MaxDescV, MaxMinV)
    \/ Decide
    \/ Respond

SpecVerify == Init /\ [][NextVerify]_vars

\* The images of the concurrent calls: one that fails the quality gate, one
\* without descriptors, and a good one.
EnrollImages ==
    { img \in Images(MaxDesc, MaxMin) :
        \/ img.q = [readable |-> TRUE, blurry |-> TRUE, ridges |-> TRUE]
        \/ GateOutcome(img.q) = "ok" /\ img.desc = 0 /\ img.min = 0
        \/ GateOutcome(img.q) = "ok" /\ img.desc = MaxDesc /\ img.min = MaxMin }

\* Up to MaxCalls enroll calls in progress at once, interleaved at the
\* statements that touch the table.
NextEnroll ==
    \/ \E c \in Calls, u \in UserIds, f \in Identities, img \in EnrollImages :
          EnrollStart(c, u, f[1], f[2], img)
    \/ \E c \in Calls : EnrollLookup(c)
    \/ \E c \in Calls : EnrollSave(c)

SpecEnroll == Init /\ [][NextEnroll]_vars

\* The writers of the table, and the backup threads they start.
NextBackup ==
    \/ \E u \in UserIds :
          Register(u, "alice", "111", [q |-> [readable |-> TRUE, blurry |-> FALSE,
                                             ridges |-> TRUE],
                                       desc |-> MaxDesc, min |-> MaxMin])
    \/ \E u \in UserIds : update_user(u, "bob", "222")
    \/ \E u \in UserIds : UpdateFingerprint(u, "bob", "222")
    \/ \E u \in UserIds : delete_user(u)
    \/ BackupRead
    \/ \E t \in backup.tasks : BackupWrite(t)

SpecBackup == Init /\ [][NextBackup]_vars

\* ------------------------------------------------------------------ claims
\* A verify call whose hypothesis loop ran to its end and returned.
LoopDecided ==
    /\ v.pc = "decided"
    /\ v.result.status \in {"match_found", "no_match"}

Triple(r) == <<r.accuracy, r.orb_score, r.minutiae_score>>

\* C1: after the hypothesis loop the result is a match (status match_found,
\* match true) exactly when fused >= 26 or (descriptor > 45 and minutiae > 15)
\* holds of the reported scores; otherwise the status is no_match.
C1_DecisionRule ==
    LoopDecided =>
        LET f == v.result.accuracy
            o == v.result.orb_score
            m == v.result.minutiae_score
            rule == \/ f[1] >= MATCH_THRESHOLD * f[2]
                    \/ /\ o[1] > FallbackOrb * o[2]
                       /\ m[1] > FallbackMinutiae * m[2]
        IN  /\ v.result.match <=> rule
            /\ v.result.status = IF rule THEN "match_found" ELSE "no_match"

\* The boundary: a fused score of exactly 26, without the fallback clause.
C1_Witness ==
    /\ LoopDecided
    /\ v.result.accuracy = Whole(MATCH_THRESHOLD)
    /\ v.result.orb_score[1] <= FallbackOrb * v.result.orb_score[2]
    /\ v.result.status = "match_found"

\* C2: during and after the loop over the five angles the three best scores are
\* those of one hypothesis, the first scored angle that attains the greatest
\* fused score (a later angle with an equal fused score does not replace it);
\* they are all 0 when no angle was scored; an angle without descriptors does
\* not end the loop, so the decision is taken after all five angles.
C2_BestIsFirstMaximum ==
    /\ v.pc = "hypothesis_loop" =>
          <<v.best_final_score, v.best_orb_score, v.best_minutiae_score>> =
              IF v.ties = <<>> THEN <<Zero, Zero, Zero>> ELSE v.ties[1]
    /\ LoopDecided =>
          /\ Triple(v.result) =
                IF v.ties = <<>> THEN <<Zero, Zero, Zero>> ELSE v.ties[1]
          /\ v.enhanced = Len(angles)

\* Two angles tie on the fused score with different accuracies.
C2_Witness ==
    /\ LoopDecided
    /\ Len(v.ties) >= 2
    /\ v.ties[2] # v.ties[1]
    /\ Triple(v.result) = v.ties[1]

\* A register request with both form fields, an image that passes the quality
\* gate, and a non-empty descriptor set.
GoodEnroll(r) ==
    /\ r.kind = "register"
    /\ r.username # Empty /\ r.phone # Empty
    /\ r.q.readable /\ ~r.q.blurry /\ r.q.ridges
    /\ r.desc > 0

\* The row a register request asks to store.
RowOf(r) ==
    [username |-> r.username, phone |-> r.phone,
     descriptors |-> [orb |-> r.desc, minutiae |-> r.min,
                      username |-> r.username, phone |-> r.phone]]

Registered == "Fingerprint registered successfully."
AlreadyRegistered == "User ID already registered."

\* C3: a good enrollment of a user_id without a row is answered Registered and
\* stores its template; a good enrollment of the same user_id right after it is
\* answered AlreadyRegistered and leaves the row exactly as the first call
\* stored it.
C3_DuplicateEnrollment ==
    [][ /\ (op' # op /\ GoodEnroll(op') /\ store[op'.uid] = NoRow) =>
              /\ op'.message = Registered
              /\ store'[op'.uid] = RowOf(op')
        /\ (/\ GoodEnroll(op) /\ op.message = Registered
            /\ op' # op /\ GoodEnroll(op') /\ op'.uid = op.uid) =>
              /\ op'.message = AlreadyRegistered
              /\ store[op.uid] = RowOf(op)
              /\ store' = store ]_vars

\* A second enrollment with another identity and other features was refused
\* and the stored row is not the one it asked for.
C3_Witness ==
    /\ GoodEnroll(op)
    /\ op.message = AlreadyRegistered
    /\ store[op.uid] # NoRow
    /\ store[op.uid] # RowOf(op)

\* C5: every stored template has a non-empty descriptor set: an enrollment
\* whose extraction yields no descriptors is answered "not detected" and its
\* template is not in the store, while an enrollment with descriptors and no
\* minutiae is accepted like any other (Registered, and stored with the empty
\* minutiae set, or AlreadyRegistered).
C5_NoEmptyDescriptorSet ==
    /\ \A u \in UserIds : store[u] # NoRow => store[u].descriptors.orb > 0
    /\ (/\ op.kind = "register" /\ op.username # Empty /\ op.phone # Empty
        /\ op.q.readable /\ ~op.q.blurry /\ op.q.ridges /\ op.desc = 0) =>
          /\ op.message = "Fingerprint not detected."
          /\ store[op.uid] # RowOf(op)
    /\ (GoodEnroll(op) /\ op.min = 0) =>
          \/ op.message = Registered /\ store[op.uid] = RowOf(op)
          \/ op.message = AlreadyRegistered

\* A template with descriptors and an empty minutiae set was just stored.
C5_Witness ==
    /\ GoodEnroll(op) /\ op.min = 0
    /\ op.message = Registered
    /\ store[op.uid].descriptors.minutiae = 0
    /\ store[op.uid].descriptors.orb > 0

\* C7: an update request changes nothing but the username and phone columns of
\* the row of its user_id, and between its insertion and its deletion the
\* descriptors document of a row never changes.
C7_UpdateFrame ==
    [][ /\ (op' # op /\ op'.kind = "update") =>
              \A u \in UserIds :
                 IF u = op'.uid /\ store[u] # NoRow /\ op'.code = 200
                 THEN store'[u] = [username |-> op'.username,
                                   phone |-> op'.phone,
                                   descriptors |-> store[u].descriptors]
                 ELSE store'[u] = store[u]
        /\ \A u \in UserIds :
              (store[u] # NoRow /\ store'[u] # NoRow) =>
                  store'[u].descriptors = store[u].descriptors ]_vars

\* An update took effect: the columns carry the new identity, the descriptors
\* document still carries what enrollment stored.
C7_Witness ==
    /\ op.kind = "update" /\ op.code = 200
    /\ store[op.uid] # NoRow
    /\ store[op.uid].username = op.username
    /\ store[op.uid].phone = op.phone
    /\ store[op.uid].descriptors.username # op.username
    /\ store[op.uid].descriptors.orb > 0

\* C8: an update (with both fields) or a delete for a user_id without a row is
\* not answered as a success and leaves the store unchanged.
C8_NotFoundReported ==
    [][ (/\ op' # op
         /\ \/ op'.kind = "delete"
            \/ op'.kind = "update" /\ op'.username # Empty /\ op'.phone # Empty
         /\ store[op'.uid] = NoRow) =>
            /\ op'.code # 200
            /\ store' = store ]_vars

\* The stages of a verify call that ran to the decision, and its early exits.
FullRun == <<"start", "quality_checked", "template_loaded", "hypothesis_loop",
             "decided">>

IsPrefix(a, b) == Len(a) <= Len(b) /\ \A n \in 1..Len(a) : a[n] = b[n]

\* C4: a verify call passes start, quality_checked, template_loaded, the
\* hypothesis loop and decided in this order and leaves at the first failing
\* stage: unreadable image -> error, else blurry -> blurry, else no ridge
\* pattern -> no_fingerprint, else no row for the user_id -> no_user.  A call
\* ending in error, blurry or no_fingerprint made no lookup and ran no
\* enhancement; a call ending in no_user processed no hypothesis.
C4_StagesShortCircuit ==
    /\ v.pc \notin {"idle", "responded"} =>
          /\ v.stages # <<>>
          /\ v.stages[Len(v.stages)] = v.pc
          /\ \/ IsPrefix(v.stages, FullRun)
             \/ v.stages = <<"start", "decided">>
             \/ v.stages = <<"start", "quality_checked", "decided">>
    /\ v.pc = "decided" =>
          /\ ~v.q.readable => v.result.status = "error"
          /\ (v.q.readable /\ v.q.blurry) => v.result.status = "blurry"
          /\ (v.q.readable /\ ~v.q.blurry /\ ~v.q.ridges) =>
                v.result.status = "no_fingerprint"
          /\ (v.q.readable /\ ~v.q.blurry /\ v.q.ridges /\ store[v.uid] = NoRow) =>
                v.result.status = "no_user"
          /\ (v.q.readable /\ ~v.q.blurry /\ v.q.ridges /\ store[v.uid] # NoRow) =>
                v.result.status \in {"match_found", "no_match"}
          /\ v.result.status \in {"error", "blurry", "no_fingerprint"} =>
                /\ v.stages = <<"start", "decided">>
                /\ v.lookups = 0 /\ v.enhanced = 0
          /\ v.result.status = "no_user" =>
                /\ v.stages = <<"start", "quality_checked", "decided">>
                /\ v.lookups = 1 /\ v.enhanced = 0
          /\ v.result.status \in {"match_found", "no_match"} =>
                /\ v.stages = FullRun
                /\ v.lookups = 1 /\ v.enhanced = Len(angles)

\* A blurry image that also lacks a ridge pattern left at the blur check,
\* while a row for the user_id was waiting in the store.
C4_Witness ==
    /\ v.pc = "decided"
    /\ v.q.readable /\ v.q.blurry /\ ~v.q.ridges
    /\ store[v.uid] # NoRow
    /\ v.result.status = "blurry"
    /\ v.lookups = 0

\* C6: what verify returns has every field set, its status is one of the six
\* terminal states, match is true exactly for match_found, and in error,
\* blurry, no_fingerprint and no_user the three scores are 0 and the username
\* is None.
C6_ResultWellFormed ==
    v.pc = "decided" =>
        /\ DOMAIN v.result = {"status", "match", "accuracy", "orb_score",
                              "minutiae_score", "username", "message"}
        /\ v.result.status \in {"error", "blurry", "no_fingerprint", "no_user",
                                "match_found", "no_match"}
        /\ v.result.message # None
        /\ v.result.match <=> v.result.status = "match_found"
        /\ v.result.status \in {"error", "blurry", "no_fingerprint", "no_user"} =>
              /\ v.result.accuracy = Zero
              /\ v.result.orb_score = Zero
              /\ v.result.minutiae_score = Zero
              /\ v.result.username = None
        /\ v.result.status \in {"match_found", "no_match"} =>
              v.result.username # None

\* verify returned no_user.
C6_Witness ==
    /\ v.pc = "decided"
    /\ v.result.status = "no_user"
    /\ v.result.username = None
    /\ ~v.result.match

\* The user-facing status each terminal state of verify stands for.
ServiceStatus(status) ==
    CASE status = "error" -> "bad_input"
      [] status = "blurry" -> "blurry"
      [] status = "no_fingerprint" -> "no_fingerprint"
      [] status = "no_user" -> "not_found"
      [] status = "no_match" -> "no_match"
      [] status = "match_found" -> "match_found"

\* C9: the route answers each terminal state of verify with that state's own
\* user-facing status; no_user and error are never answered as no_match.
C9_StatusMapping ==
    (v.pc = "responded" /\ v.result.status # None) =>
        v.resp.status = ServiceStatus(v.result.status)

\* C10: a verify that ran the hypothesis loop returns the username the
\* username column holds for that user_id (what GET /user and GET /users
\* report).
C10_CurrentUsername ==
    LoopDecided => v.result.username = store[v.uid].username

\* The enroll calls for user_id u that passed the form check and the quality
\* gate and whose extraction yielded descriptors.
GoodCalls(u) ==
    { c \in Calls : calls[c].pc # "idle" /\ calls[c].uid = u /\ GoodEnroll(calls[c]) }

\* Those of them that were answered Registered.
Winners(u) == { c \in GoodCalls(u) : calls[c].message = Registered }

FileRows == backup.file.rows

\* No backup thread is alive.
NoThread == backup.tasks = {}

\* A step that changes the table leaves a backup thread that has yet to read
\* the table.
WriteStartsBackup == [][ store' # store => Started \in backup'.tasks ]_vars

\* When every backup thread has ended the file holds the rows of the table.
BackupCatchesUp == NoThread => FileRows = AllRows(store)

\* A thread that writes the file holds rows fetched no earlier than the rows
\* in the file, or the same rows.
NoStaleOverwrite ==
    [][ \A t \in backup.tasks :
          (t.pc = "fetched" /\ backup'.tasks = backup.tasks \ {t}) =>
              \/ t.at >= backup.at
              \/ t.rows = FileRows ]_vars

\* C12: every successful write to the table (insert, update, delete) starts a
\* backup task; whenever all backup tasks started so far have ended, the
\* backup file holds exactly the rows (user_id, username, phone, payload) of
\* the table; and a task holding an older snapshot never overwrites the file
\* written from a newer one.
C12_BackupFollowsStore ==
    /\ WriteStartsBackup
    /\ []BackupCatchesUp
    /\ NoStaleOverwrite

====
